---- MODULE Spec2Model ----
(***************************************************************************)
(* learn-langchain: two scripts that build an agent with tools and invoke  *)
(* it turn by turn.                                                        *)
(*   use-agent-tool.py          one tool (get_weather), no checkpointer,   *)
(*                              invoke without a thread id                 *)
(*   use-agent-with-memory-1.py two tools (get_user_profile,               *)
(*                              save_user_preference), an InMemorySaver    *)
(*                              checkpointer, invokes under a thread id    *)
(* Python strings are sequences of one-character strings, so that          *)
(* formatting, repr() and "contains" are computed, not assumed.            *)
(***************************************************************************)
EXTENDS Integers, Sequences, FiniteSets, TLC

(* ---------------- bounds ---------------- *)
\* invoke statements the driver executes at most (the memory script has 3, the tool script 1)
MaxTurns == 3
\* tool calls the model may request within one invoke
MaxToolCalls == 1

(* ---------------- string literals of the two scripts ---------------- *)
S_user_123 == <<"u", "s", "e", "r", "_", "1", "2", "3">>
S_user_456 == <<"u", "s", "e", "r", "_", "4", "5", "6">>
S_user_789 == <<"u", "s", "e", "r", "_", "7", "8", "9">>
S_name == <<"n", "a", "m", "e">>
S_preferences == <<"p", "r", "e", "f", "e", "r", "e", "n", "c", "e", "s">>
S_Alice == <<"A", "l", "i", "c", "e">>
S_Bob == <<"B", "o", "b">>
S_theme == <<"t", "h", "e", "m", "e">>
S_language == <<"l", "a", "n", "g", "u", "a", "g", "e">>
S_dark == <<"d", "a", "r", "k">>
S_light == <<"l", "i", "g", "h", "t">>
S_en == <<"e", "n">>
S_zh == <<"z", "h">>
S_Unknown == <<"U", "n", "k", "n", "o", "w", "n">>
S_UserPrefix == <<"U", "s", "e", "r", ":", " ">>
S_PrefsSep == <<",", " ", "P", "r", "e", "f", "s", ":", " ">>
S_SavedPrefix == <<"S", "a", "v", "e", "d", " ", "p", "r", "e", "f", "e", "r", "e", "n", "c", "e", ":", " ">>
S_Dash == <<" ", "-", " ">>
S_Colon == <<":", " ">>
S_WeatherPrefix == <<"T", "h", "e", " ", "w", "e", "a", "t", "h", "e", "r", " ", "i", "n", " ">>
S_WeatherSuffix == <<" ", "i", "s", " ", "s", "u", "n", "n", "y", ".">>
S_sunny == <<"s", "u", "n", "n", "y">>
S_Tokyo == <<"T", "o", "k", "y", "o">>
S_it_s == <<"i", "t", "'", "s">>
S_EmptyDictRepr == <<"{", "}">>
S_AlicePrefsRepr == <<"{", "'", "t", "h", "e", "m", "e", "'", ":", " ", "'", "d", "a", "r", "k", "'", ",", " ", "'", "l", "a", "n", "g", "u", "a", "g", "e", "'", ":", " ", "'", "e", "n", "'", "}">>
S_CommaSpace == <<",", " ">>
S_Empty == <<>>

(* ---------------- str helpers ---------------- *)
\* Python `needle in hay` for str
IsSubstring(needle, hay) ==
    LET n == needle
        h == hay
    IN  \E i \in 0..(Len(h) - Len(n)) :
            \A j \in 1..Len(n) : h[i + j] = n[j]

\* Python seq[:n] == prefix
IsPrefix(p, s) ==
    LET a == p
        b == s
    IN  /\ Len(a) <= Len(b)
        /\ \A i \in 1..Len(a) : b[i] = a[i]

Chars(s) == {s[i] : i \in 1..Len(s)}

RECURSIVE EscapeFor(_, _)
\* the body of repr(str): backslash and the chosen quote are escaped
EscapeFor(s, q) ==
    LET t == s
    IN  IF t = <<>> THEN <<>>
        ELSE (IF Head(t) = "\\" \/ Head(t) = q THEN <<"\\", Head(t)>> ELSE <<Head(t)>>)
             \o EscapeFor(Tail(t), q)

\* repr(str): single quotes, unless the text holds ' and no "
ReprStr(s) ==
    LET t == s
        q == IF "'" \in Chars(t) /\ ~("\"" \in Chars(t)) THEN "\"" ELSE "'"
    IN  <<q>> \o EscapeFor(t, q) \o <<q>>

(* ---------------- dict helpers: a dict is its items in insertion order ---------------- *)
DictHas(d, k) == \E i \in 1..Len(d) : d[i][1] = k

\* dict.get(k, default)
DictGet(d, k, default) ==
    LET items == d
    IN  IF DictHas(items, k)
        THEN items[CHOOSE i \in 1..Len(items) : items[i][1] = k][2]
        ELSE default

\* d[k] = v
DictSet(d, k, v) ==
    LET items == d
    IN  IF DictHas(items, k)
        THEN [i \in 1..Len(items) |-> IF items[i][1] = k THEN <<k, v>> ELSE items[i]]
        ELSE Append(items, <<k, v>>)

RECURSIVE ReprItems(_)
ReprItems(d) ==
    LET items == d
    IN  IF items = <<>> THEN <<>>
        ELSE ReprStr(items[1][1]) \o S_Colon \o ReprStr(items[1][2])
             \o (IF Len(items) > 1 THEN S_CommaSpace ELSE <<>>)
             \o ReprItems(Tail(items))

\* repr(dict) of a dict of str to str, as an f-string renders {dict}
ReprDict(d) == <<"{">> \o ReprItems(d) \o <<"}">>

(* ---------------- state ---------------- *)
VARIABLES
    script,     \* which script is running: "tool" or "memory"
    pc,         \* position of the module top level
    agent,      \* <<>> before create_agent, then <<the agent configuration>>
    turn,       \* number of invoke statements started so far
    store,      \* the InMemorySaver: thread id -> checkpointed state
    cur,        \* <<>>, or <<the invocation in flight>>
    inflight,   \* number of invocations started and not yet returned or aborted
    results,    \* result1, result2, ...: what each completed invoke returned
    printed,    \* turns whose "Agent Response" line has been printed
    log,        \* order of the invocations' events: start, read, write, end
    error,      \* <<>>, or <<the exception that was raised>>
    profiles,   \* the profile mapping get_user_profile looks users up in
    pending,    \* <<>>, or <<the tool call the model asked for>>
    toolOut     \* <<>>, or <<the string the tool handler returned>>

vars == <<script, pc, agent, turn, store, cur, inflight, results, printed, log,
          error, profiles, pending, toolOut>>

driverVars == <<script, pc, agent, turn, store, cur, inflight, results, printed, log, error>>

(* ---------------- the tools ---------------- *)
\* faulty variant: the two users' preferences are exchanged
ProfilesLiteral_Swapped ==
    << <<S_user_123, << <<S_name, S_Alice>>,
                        <<S_preferences, << <<S_theme, S_light>>, <<S_language, S_zh>> >> >> >> >>,
       <<S_user_456, << <<S_name, S_Bob>>,
                        <<S_preferences, << <<S_theme, S_dark>>, <<S_language, S_en>> >> >> >> >> >>

\* the dict literal of get_user_profile
ProfilesLiteral ==
    << <<S_user_123, << <<S_name, S_Alice>>,
                        <<S_preferences, << <<S_theme, S_dark>>, <<S_language, S_en>> >> >> >> >>,
       <<S_user_456, << <<S_name, S_Bob>>,
                        <<S_preferences, << <<S_theme, S_light>>, <<S_language, S_zh>> >> >> >> >> >>

\* faulty variant: an unknown user falls back to the first profile, not to {}
ProfileString_FallbackFirst(mapping, user_id) ==
    LET profile == DictGet(mapping, user_id, mapping[1][2])
    IN  S_UserPrefix \o DictGet(profile, S_name, S_Unknown)
        \o S_PrefsSep \o ReprDict(DictGet(profile, S_preferences, <<>>))

\* the string get_user_profile builds from the profile mapping
ProfileString(mapping, user_id) ==
    LET profile == DictGet(mapping, user_id, <<>>)
    IN  S_UserPrefix \o DictGet(profile, S_name, S_Unknown)
        \o S_PrefsSep \o ReprDict(DictGet(profile, S_preferences, <<>>))

get_user_profile(user_id) ==
    /\ toolOut' = <<ProfileString(profiles, user_id)>>
    /\ UNCHANGED profiles

\* faulty variant: the value is left out of the string
save_user_preference_no_value(user_id, key, value) ==
    /\ toolOut' = <<S_SavedPrefix \o user_id \o S_Dash \o key>>
    /\ UNCHANGED profiles

\* faulty variant: the preference is really stored in the profile mapping
save_user_preference_persisting(user_id, key, value) ==
    LET profile == DictGet(profiles, user_id, <<>>)
        prefs == DictGet(profile, S_preferences, <<>>)
    IN  /\ toolOut' = <<S_SavedPrefix \o user_id \o S_Dash \o key \o S_Colon \o value>>
        /\ profiles' = DictSet(profiles, user_id,
                               DictSet(profile, S_preferences, DictSet(prefs, key, value)))

save_user_preference(user_id, key, value) ==
    /\ toolOut' = <<S_SavedPrefix \o user_id \o S_Dash \o key \o S_Colon \o value>>
    /\ UNCHANGED profiles

\* faulty variant: the location is hard-coded
get_weather_fixed(location) ==
    /\ toolOut' = <<S_WeatherPrefix \o S_Tokyo \o S_WeatherSuffix>>
    /\ UNCHANGED profiles

get_weather(location) ==
    /\ toolOut' = <<S_WeatherPrefix \o location \o S_WeatherSuffix>>
    /\ UNCHANGED profiles

\* the registered handler runs on the arguments of the call
RunTool(call) ==
    CASE call.name = "get_user_profile" -> get_user_profile(call.args[1])
      [] call.name = "save_user_preference" ->
             save_user_preference(call.args[1], call.args[2], call.args[3])
      [] call.name = "get_weather" -> get_weather(call.args[1])

(* ---------------- the tools called on their own ---------------- *)
UserIds == {S_Empty, S_user_123, S_user_456, S_user_789, S_it_s}
Keys == {S_Empty, S_language, S_theme, S_Colon}
Values == {S_Empty, S_zh, S_dark, S_Dash}
Locations == {S_Empty, S_Tokyo, S_sunny, S_WeatherSuffix, S_it_s}

AllToolCalls ==
    {[name |-> "get_user_profile", args |-> <<u>>] : u \in UserIds}
    \cup {[name |-> "save_user_preference", args |-> <<u, k, v>>] :
             u \in UserIds, k \in Keys, v \in Values}
    \cup {[name |-> "get_weather", args |-> <<l>>] : l \in Locations}

InitCommon ==
    /\ agent = <<>>
    /\ turn = 0
    /\ store = <<>>
    /\ cur = <<>>
    /\ inflight = 0
    /\ results = <<>>
    /\ printed = {}
    /\ log = <<>>
    /\ error = <<>>
    /\ profiles = ProfilesLiteral
    /\ pending = <<>>
    /\ toolOut = <<>>

InitTools ==
    /\ script \in {"tool", "memory"}
    /\ pc = "tools"
    /\ InitCommon

ToolRequested(c) ==
    /\ pc = "tools"
    /\ pending = <<>>
    /\ c.name \in (IF script = "tool" THEN {"get_weather"}
                   ELSE {"get_user_profile", "save_user_preference"})
    /\ pending' = <<c>>
    /\ UNCHANGED <<driverVars, profiles, toolOut>>

ToolRuns ==
    /\ pc = "tools"
    /\ pending # <<>>
    /\ toolOut = <<>>
    /\ RunTool(pending[1])
    /\ UNCHANGED <<driverVars, pending>>

ToolReturned ==
    /\ pc = "tools"
    /\ toolOut # <<>>
    /\ pending' = <<>>
    /\ toolOut' = <<>>
    /\ UNCHANGED <<driverVars, profiles>>

NextTools ==
    \/ \E c \in AllToolCalls : ToolRequested(c)
    \/ ToolRuns
    \/ ToolReturned

SpecTools == InitTools /\ [][NextTools]_vars

(* ---------------- the agent and its conversation state ---------------- *)
\* tools=[...] of create_agent
ToolsOf(s) ==
    IF s = "tool" THEN {"get_weather"} ELSE {"get_user_profile", "save_user_preference"}

\* faulty variant: create_agent is given no checkpointer
NoCheckpointer(s) == FALSE

\* checkpointer=InMemorySaver() of create_agent: only the memory script passes one
Checkpointer(s) == s = "memory"

\* thread ids the driver invokes under; the tool script passes no config at all
NoThread == "no thread"
Threads == {"thread_001", "thread_002"}
ThreadChoices(s) == IF s = "tool" THEN {NoThread} ELSE Threads

\* faulty variant: every invoke gets a fresh thread id (thread_id = str(uuid.uuid4()))
ConfigThreadFresh(t, k) == <<"uuid4", k>>

\* faulty variant: every invoke passes the module-level thread_id, whatever thread it is for
ConfigThreadShared(t, k) == <<"thread_001">>

\* config={"configurable": {"thread_id": thread_id}}: the key the store is asked for
ConfigThread(t, k) == <<t>>

\* the "content" of the k-th user message (texts the model only passes along are kept whole)
UserText(s, k) ==
    IF s = "tool" THEN "What is the weather in Tokyo?"
    ELSE CASE k = 1 -> "Hi, my name is Alice and I prefer dark theme"
           [] k = 2 -> "What theme do you think I prefer?"
           [] OTHER -> "Save my language preference as Chinese"

UserMessage(s, k) ==
    [role |-> "user", turn |-> k, content |-> <<UserText(s, k)>>, tool_calls |-> <<>>]

AIMessage(k, calls) ==
    [role |-> "ai", turn |-> k, content |-> <<"(model output)">>, tool_calls |-> calls]

ToolMessage(k, out) ==
    [role |-> "tool", turn |-> k, content |-> out, tool_calls |-> <<>>]

\* the "preferences" field of the k-th invoke's input
InputPreferences(k) ==
    IF k < 3 THEN << <<S_theme, S_dark>> >>
    ELSE << <<S_theme, S_dark>>, <<S_language, S_zh>> >>

\* the dict passed to the k-th invoke
InputState(s, k) ==
    [messages |-> <<UserMessage(s, k)>>,
     extras |-> IF s = "tool" THEN <<>>
                ELSE <<[user_id |-> S_user_123, user_name |-> S_Alice,
                        preferences |-> InputPreferences(k), interaction_count |-> k]>>]

EmptyState == [messages |-> <<>>, extras |-> <<>>]

\* the reducer of the "messages" channel: new messages carry fresh ids and are appended
add_messages(left, right) == left \o right

\* the input merged into the checkpointed state: messages are reduced, the other fields overwritten
MergeInput(prior, input) ==
    [messages |-> add_messages(prior.messages, input.messages), extras |-> input.extras]

\* an invocation reads and writes the store only with a checkpointer and a thread id
UsesStore(inv) == agent[1].checkpointer /\ inv.config # <<>>

\* tool calls the model asks for while the driver runs
ModelToolCalls ==
    {[name |-> "get_weather", args |-> <<S_Tokyo>>],
     [name |-> "get_user_profile", args |-> <<S_user_123>>],
     [name |-> "save_user_preference", args |-> <<S_user_123, S_language, S_zh>>]}

(* ---------------- the module top level ---------------- *)
Init ==
    /\ script \in {"tool", "memory"}
    /\ pc = "configure"
    /\ InitCommon

\* faulty variant: the exception is swallowed and the script goes on to its print
Caught == "print"

\* no try/except anywhere: an exception leaves the top level and ends the process
Uncaught == "crashed"

Raise(kind) ==
    /\ error' = <<[kind |-> kind, turn |-> turn]>>
    /\ pc' = Uncaught
    /\ cur' = <<>>
    /\ inflight' = 0

\* load_dotenv(); model = ChatOpenAI(model=..., base_url=..., api_key=...)
Configure ==
    /\ pc = "configure"
    /\ pc' = "build"
    /\ UNCHANGED <<script, agent, turn, store, cur, inflight, results, printed, log,
                   error, profiles, pending, toolOut>>

ConfigureFails ==
    /\ pc = "configure"
    /\ Raise("configuration")
    /\ UNCHANGED <<script, agent, turn, store, results, printed, log,
                   profiles, pending, toolOut>>

\* agent = create_agent(...)
BuildAgent ==
    /\ pc = "build"
    /\ agent' = <<[tools |-> ToolsOf(script), checkpointer |-> Checkpointer(script)]>>
    /\ pc' = "ready"
    /\ UNCHANGED <<script, turn, store, cur, inflight, results, printed, log,
                   error, profiles, pending, toolOut>>

\* faulty variant: the next invoke is fired without waiting for the one in flight
CanStartInvokeEarly == pc \in {"ready", "invoking"}

\* statements run one after the other: invoke is reached when the previous statement is done
CanStartInvoke == pc = "ready"

\* resultK = agent.invoke(input, config): the call is entered
StartInvoke(t) ==
    /\ CanStartInvoke
    /\ turn < MaxTurns
    /\ t \in ThreadChoices(script)
    /\ turn' = turn + 1
    /\ cur' = <<[turn |-> turn + 1,
                 thread |-> t,
                 config |-> IF t = NoThread THEN <<>> ELSE ConfigThread(t, turn + 1),
                 phase |-> "load",
                 calls |-> 0,
                 state |-> InputState(script, turn + 1)]>>
    /\ inflight' = inflight + 1
    /\ pc' = "invoking"
    /\ log' = Append(log, <<"start", turn + 1>>)
    /\ UNCHANGED <<script, agent, store, results, printed, error, profiles, pending, toolOut>>

\* the store is consulted first: the thread's state seeds this turn's
LoadCheckpoint ==
    /\ cur # <<>>
    /\ cur[1].phase = "load"
    /\ LET inv == cur[1]
           prior == IF UsesStore(inv) THEN DictGet(store, inv.config, EmptyState)
                    ELSE EmptyState
       IN  /\ cur' = <<[inv EXCEPT !.phase = "model",
                                   !.state = MergeInput(prior, inv.state)]>>
           /\ log' = IF UsesStore(inv) THEN Append(log, <<"read", inv.turn>>) ELSE log
    /\ UNCHANGED <<script, pc, agent, turn, store, inflight, results, printed,
                   error, profiles, pending, toolOut>>

\* the remote model answers with a final message
ModelReplies ==
    /\ cur # <<>>
    /\ cur[1].phase = "model"
    /\ LET inv == cur[1]
       IN  cur' = <<[inv EXCEPT !.phase = "save",
                                !.state.messages = Append(@, AIMessage(inv.turn, <<>>))]>>
    /\ UNCHANGED <<script, pc, agent, turn, store, inflight, results, printed, log,
                   error, profiles, pending, toolOut>>

\* the remote model answers with a tool call
ModelCallsTool(c) ==
    /\ cur # <<>>
    /\ cur[1].phase = "model"
    /\ cur[1].calls < MaxToolCalls
    /\ c.name \in agent[1].tools
    /\ LET inv == cur[1]
       IN  cur' = <<[inv EXCEPT !.phase = "tool",
                                !.calls = @ + 1,
                                !.state.messages = Append(@, AIMessage(inv.turn, <<c>>))]>>
    /\ pending' = <<c>>
    /\ UNCHANGED <<script, pc, agent, turn, store, inflight, results, printed, log,
                   error, profiles, toolOut>>

\* the remote call fails (network, authentication, model error)
ModelFails ==
    /\ cur # <<>>
    /\ cur[1].phase = "model"
    /\ Raise("remote call")
    /\ UNCHANGED <<script, agent, turn, store, results, printed, log,
                   profiles, pending, toolOut>>

\* the runtime calls the tool handler
ToolExecutes ==
    /\ cur # <<>>
    /\ cur[1].phase = "tool"
    /\ toolOut = <<>>
    /\ RunTool(pending[1])
    /\ UNCHANGED <<driverVars, pending>>

\* the tool handler raises
ToolFails ==
    /\ cur # <<>>
    /\ cur[1].phase = "tool"
    /\ toolOut = <<>>
    /\ Raise("tool execution")
    /\ UNCHANGED <<script, agent, turn, store, results, printed, log,
                   profiles, pending, toolOut>>

\* the handler's string becomes a tool message and the model is asked again
ToolMessageAppended ==
    /\ cur # <<>>
    /\ cur[1].phase = "tool"
    /\ toolOut # <<>>
    /\ LET inv == cur[1]
       IN  cur' = <<[inv EXCEPT !.phase = "model",
                                !.state.messages = Append(@, ToolMessage(inv.turn, toolOut[1]))]>>
    /\ pending' = <<>>
    /\ toolOut' = <<>>
    /\ UNCHANGED <<script, pc, agent, turn, store, inflight, results, printed, log,
                   error, profiles>>

\* the store is updated afterward with the new state
SaveCheckpoint ==
    /\ cur # <<>>
    /\ cur[1].phase = "save"
    /\ LET inv == cur[1]
       IN  /\ store' = IF UsesStore(inv) THEN DictSet(store, inv.config, inv.state) ELSE store
           /\ log' = IF UsesStore(inv) THEN Append(log, <<"write", inv.turn>>) ELSE log
           /\ cur' = <<[inv EXCEPT !.phase = "return"]>>
    /\ UNCHANGED <<script, pc, agent, turn, inflight, results, printed,
                   error, profiles, pending, toolOut>>

\* invoke returns the updated conversation state, which is bound to resultK
ReturnResult ==
    /\ cur # <<>>
    /\ cur[1].phase = "return"
    /\ results' = Append(results, [turn |-> cur[1].turn,
                                   thread |-> cur[1].thread,
                                   messages |-> cur[1].state.messages,
                                   extras |-> cur[1].state.extras])
    /\ cur' = <<>>
    /\ inflight' = inflight - 1
    /\ pc' = "print"
    /\ log' = Append(log, <<"end", cur[1].turn>>)
    /\ UNCHANGED <<script, agent, turn, store, printed, error, profiles, pending, toolOut>>

\* print("Agent Response:", resultK["messages"][-1].content)
PrintResult ==
    /\ pc = "print"
    /\ printed' = printed \cup {turn}
    /\ pc' = "ready"
    /\ UNCHANGED <<script, agent, turn, store, cur, inflight, results, log,
                   error, profiles, pending, toolOut>>

\* the last statement has run
Finish ==
    /\ pc = "ready"
    /\ turn >= 1
    /\ pc' = "done"
    /\ UNCHANGED <<script, agent, turn, store, cur, inflight, results, printed, log,
                   error, profiles, pending, toolOut>>

Next ==
    \/ Configure
    \/ ConfigureFails
    \/ BuildAgent
    \/ \E t \in Threads \cup {NoThread} : StartInvoke(t)
    \/ LoadCheckpoint
    \/ ModelReplies
    \/ \E c \in ModelToolCalls : ModelCallsTool(c)
    \/ ModelFails
    \/ ToolExecutes
    \/ ToolFails
    \/ ToolMessageAppended
    \/ SaveCheckpoint
    \/ ReturnResult
    \/ PrintResult
    \/ Finish

Spec == Init /\ [][Next]_vars

(* ======================= properties ======================= *)

\* turns whose messages appear in a returned history
TurnsIn(msgs) == {msgs[i].turn : i \in 1..Len(msgs)}

\* C1: under the memory script's agent, the history returned by a later invoke of a
\* thread has the history returned by every earlier invoke of that thread as a prefix.
C1_HistoryIsPrefixExtended ==
    script = "memory" =>
        \A i, j \in 1..Len(results) :
            (i < j /\ results[i].thread = results[j].thread)
                => IsPrefix(results[i].messages, results[j].messages)

\* thread A is invoked (with a tool call), then thread B, then thread A again
C1_Witness ==
    /\ script = "memory"
    /\ Len(results) = 3
    /\ results[1].thread = results[3].thread
    /\ results[2].thread # results[1].thread
    /\ Len(results[1].messages) > 2

\* C2: a call without a thread id, or under a thread id no other call used, returns
\* only its own turn's messages; no history crosses from one thread to another.
C2_NoHistoryAcrossThreads ==
    \A i \in 1..Len(results) :
        /\ \A k \in TurnsIn(results[i].messages) :
               /\ k <= i
               /\ results[k].thread = results[i].thread
        /\ (results[i].thread = NoThread \/
            \A j \in 1..(i - 1) : results[j].thread # results[i].thread)
               => /\ TurnsIn(results[i].messages) = {i}
                  /\ results[i].messages[1] = UserMessage(script, i)

\* two completed calls under two different thread ids, the first with a tool call
C2_Witness ==
    /\ script = "memory"
    /\ Len(results) = 2
    /\ results[1].thread # results[2].thread
    /\ Len(results[1].messages) > 2

\* C3: of two invokes of the memory script's agent under the same thread id, the
\* later one returns a strictly longer history.
C3_SecondHistoryLonger ==
    script = "memory" =>
        \A i, j \in 1..Len(results) :
            (i < j /\ results[i].thread = results[j].thread)
                => Len(results[j].messages) > Len(results[i].messages)

\* the first call made a tool call (4 messages), the second under the same thread none
C3_Witness ==
    /\ script = "memory"
    /\ Len(results) = 2
    /\ results[1].thread = results[2].thread
    /\ Len(results[1].messages) = 4
    /\ Len(results[2].messages) = 6

\* C4: once a configuration, remote-call or tool-execution error is raised, the run is
\* in the crashed state, nothing more can happen, no invoke was started after the
\* failing step and the failing invocation has neither a result nor a printed line.
C4_ErrorsEndTheRun ==
    error # <<>> =>
        /\ pc = "crashed"
        /\ ~ENABLED Next
        /\ turn = error[1].turn
        /\ cur = <<>>
        /\ inflight = 0
        /\ turn \notin printed
        /\ \A i \in 1..Len(results) : results[i].turn # turn

\* the tool handler raised in the second invoke, after the first was printed
C4_Witness ==
    /\ error # <<>>
    /\ error[1].kind = "tool execution"
    /\ error[1].turn = 2
    /\ printed = {1}

\* what a save_user_preference call returns for (user_id, key, value), by position
SavedAt(out, user_id, key, value) ==
    LET a == Len(S_SavedPrefix)
        b == a + Len(user_id)
        c == b + Len(S_Dash)
        d == c + Len(key)
        e == d + Len(S_Colon)
    IN  /\ Len(out) = e + Len(value)
        /\ SubSeq(out, 1, a) = S_SavedPrefix
        /\ SubSeq(out, a + 1, b) = user_id
        /\ SubSeq(out, b + 1, c) = S_Dash
        /\ SubSeq(out, c + 1, d) = key
        /\ SubSeq(out, d + 1, e) = S_Colon
        /\ SubSeq(out, e + 1, Len(out)) = value

\* C5: save_user_preference(user_id, key, value) returns exactly
\* "Saved preference: <user_id> - <key>: <value>", which contains all three arguments.
C5_SaveReturnsAllArguments ==
    (pending # <<>> /\ toolOut # <<>> /\ pending[1].name = "save_user_preference") =>
        LET a == pending[1].args
        IN  /\ SavedAt(toolOut[1], a[1], a[2], a[3])
            /\ IsSubstring(a[1], toolOut[1])
            /\ IsSubstring(a[2], toolOut[1])
            /\ IsSubstring(a[3], toolOut[1])

\* the call with three empty strings has returned
C5_Witness ==
    /\ pending = <<[name |-> "save_user_preference", args |-> <<S_Empty, S_Empty, S_Empty>>]>>
    /\ toolOut # <<>>

\* C6: for a user_id that is neither "user_123" nor "user_456", get_user_profile
\* returns "User: Unknown, Prefs: {}".
C6_UnknownUserProfile ==
    (pending # <<>> /\ toolOut # <<>> /\ pending[1].name = "get_user_profile"
       /\ pending[1].args[1] \notin {S_user_123, S_user_456}) =>
        /\ IsSubstring(S_Unknown, toolOut[1])
        /\ toolOut[1] = S_UserPrefix \o S_Unknown \o S_PrefsSep \o S_EmptyDictRepr

\* the call for "user_789" has returned
C6_Witness ==
    /\ pending = <<[name |-> "get_user_profile", args |-> <<S_user_789>>]>>
    /\ toolOut # <<>>

\* C7: get_user_profile("user_123") returns a string containing "Alice" and
\* "{'theme': 'dark', 'language': 'en'}".
C7_AliceProfile ==
    (pending # <<>> /\ toolOut # <<>> /\ pending[1].name = "get_user_profile"
       /\ pending[1].args[1] = S_user_123) =>
        /\ IsSubstring(S_Alice, toolOut[1])
        /\ IsSubstring(S_AlicePrefsRepr, toolOut[1])

\* the call for "user_123" has returned
C7_Witness ==
    /\ pc = "tools"
    /\ pending = <<[name |-> "get_user_profile", args |-> <<S_user_123>>]>>
    /\ toolOut # <<>>

\* C8: get_weather(location) returns a string that holds the location, right after
\* "The weather in ", and the word "sunny".
C8_WeatherNamesLocation ==
    (pending # <<>> /\ toolOut # <<>> /\ pending[1].name = "get_weather") =>
        LET loc == pending[1].args[1]
            out == toolOut[1]
        IN  /\ IsSubstring(loc, out)
            /\ IsSubstring(S_sunny, out)
            /\ SubSeq(out, Len(S_WeatherPrefix) + 1, Len(S_WeatherPrefix) + Len(loc)) = loc
            /\ Len(out) = Len(S_WeatherPrefix) + Len(loc) + Len(S_WeatherSuffix)

\* the call for a location other than the script's "Tokyo" has returned
C8_Witness ==
    /\ pc = "tools"
    /\ pending = <<[name |-> "get_weather", args |-> <<S_it_s>>]>>
    /\ toolOut # <<>>

\* a tool handler runs in this step
HandlerStep == toolOut = <<>> /\ toolOut' # <<>>

\* C9: a step in which a tool handler runs changes no profile and no conversation
\* state: get_user_profile would return the same string for every user afterwards,
\* and for "user_123" that string still reports language 'en'.
C9_ToolsAreSideEffectFree ==
    [][HandlerStep =>
          LET before == profiles
              after == profiles'
          IN  /\ \A u \in UserIds : ProfileString(after, u) = ProfileString(before, u)
              /\ IsSubstring(S_AlicePrefsRepr, ProfileString(after, S_user_123))
              /\ cur' = cur
              /\ store' = store
              /\ results' = results]_vars

\* in the third invoke, save_user_preference("user_123", "language", "zh") has run
C9_Witness ==
    /\ cur # <<>>
    /\ cur[1].turn = 3
    /\ pending = <<[name |-> "save_user_preference", args |-> <<S_user_123, S_language, S_zh>>]>>
    /\ toolOut # <<>>

\* position of the first occurrence of an event in the log, 0 when absent
At(ev) == IF \E i \in 1..Len(log) : log[i] = ev
          THEN CHOOSE i \in 1..Len(log) : log[i] = ev /\ \A j \in 1..(i - 1) : log[j] # ev
          ELSE 0

\* C10: at most one invocation is in flight, the top level does not move while one
\* is, every invoke starts after the previous one has ended, and a turn reads the
\* store only after the previous turn has written it.
C10_TurnsNeverOverlap ==
    /\ inflight <= 1
    /\ (cur # <<>>) = (inflight = 1)
    /\ cur # <<>> => pc = "invoking"
    /\ \A i \in 1..Len(log) :
           LET k == log[i][2]
           IN  /\ (log[i][1] = "start" /\ k > 1) =>
                      (At(<<"end", k - 1>>) > 0 /\ At(<<"end", k - 1>>) < i)
               /\ (log[i][1] = "read" /\ k > 1) =>
                      (At(<<"write", k - 1>>) > 0 /\ At(<<"write", k - 1>>) < i)
               /\ log[i][1] = "write" =>
                      (At(<<"read", k>>) > 0 /\ At(<<"read", k>>) < i)

\* the second turn has read the store
C10_Witness ==
    /\ script = "memory"
    /\ cur # <<>>
    /\ cur[1].turn = 2
    /\ cur[1].phase = "model"
    /\ At(<<"read", 2>>) > 0
====
